---- MODULE Spec2Model ----
(***************************************************************************)
(* Model of legal_doc_analyzer.DocumentAnalyzer: the pattern extractors    *)
(* (PAN, GSTIN, dates, penalty amount, legal sections, issuing office,     *)
(* notice type), the assembler analyze_text and the entry point            *)
(* process_document.                                                       *)
(*                                                                         *)
(* Representation.  A Python str is a sequence of string pieces; text that *)
(* comes from OCR has one piece per character, so regular expressions are  *)
(* modelled position by position.  Optional[T] is a sequence of length 0   *)
(* (None) or 1 (the value).  A datetime is the integer yyyymmdd, so that   *)
(* Python's ordering of datetimes is the ordering of the integers.  A      *)
(* float amount is the integer number of hundredths.                       *)
(***************************************************************************)
EXTENDS Integers, Sequences, FiniteSets, TLC

VARIABLES pc, doc_path, path_exists, languages_kw, text, lang, translated_text,
          dates, notice_date, pan_number, gstin, penalty_amount,
          legal_sections, notice_type, compliance_deadline, issuing_office,
          exc, result, outcome

vars == <<pc, doc_path, path_exists, languages_kw, text, lang, translated_text,
          dates, notice_date, pan_number, gstin, penalty_amount,
          legal_sections, notice_type, compliance_deadline, issuing_office,
          exc, result, outcome>>

----------------------------------------------------------------------------
(* Characters and character classes of the regular expressions.            *)

None == <<>>
Some(x) == <<x>>

DigitSeq == <<"0", "1", "2", "3", "4", "5", "6", "7", "8", "9">>
UpperSeq == <<"A", "B", "C", "D", "E", "F", "G", "H", "I", "J", "K", "L", "M",
              "N", "O", "P", "Q", "R", "S", "T", "U", "V", "W", "X", "Y", "Z">>
LowerSeq == <<"a", "b", "c", "d", "e", "f", "g", "h", "i", "j", "k", "l", "m",
              "n", "o", "p", "q", "r", "s", "t", "u", "v", "w", "x", "y", "z">>

Range(s) == {s[i] : i \in DOMAIN s}

\* \d
Digit == Range(DigitSeq)
\* [A-Z]
Upper == Range(UpperSeq)
\* [a-z]
Lower == Range(LowerSeq)
\* [A-Za-z], which is also what [A-Z] and [a-z] match under re.IGNORECASE
Letter == Upper \cup Lower
\* \s
Whitespace == {" ", "\n"}

\* int() of one digit character
DigitVal(c) == (CHOOSE i \in DOMAIN DigitSeq : DigitSeq[i] = c) - 1

\* str.lower() on one character
LowerChar(c) ==
    IF c \in Upper THEN LowerSeq[CHOOSE i \in DOMAIN UpperSeq : UpperSeq[i] = c]
    ELSE c

\* str.lower()
StrLower(s) == [i \in DOMAIN s |-> LowerChar(s[i])]

\* t[i] when i is inside t, and a character no pattern matches otherwise
At(t, i) == IF i \in DOMAIN t THEN t[i] ELSE "<end>"

\* the literal lit (given in lower case) occurs at position i of t, compared
\* without regard to case (re.IGNORECASE)
LitAtCI(t, i, lit) ==
    /\ i >= 1
    /\ i + Len(lit) - 1 <= Len(t)
    /\ \A k \in DOMAIN lit : LowerChar(t[i + k - 1]) = lit[k]

\* re.search(lit, t, re.IGNORECASE) finds a match
ContainsCI(t, lit) == \E i \in 1..Len(t) : LitAtCI(t, i, lit)

\* every character of t at positions a..b is in class C
AllIn(t, a, b, C) == \A k \in a..b : At(t, k) \in C

RECURSIVE Concat(_)
\* ''.join(parts)
Concat(parts) ==
    IF parts = <<>> THEN <<>> ELSE Head(parts) \o Concat(Tail(parts))

RECURSIVE JoinWith(_, _)
\* sep.join(parts)
JoinWith(parts, sep) ==
    IF parts = <<>> THEN <<>>
    ELSE IF Len(parts) = 1 THEN parts[1]
    ELSE parts[1] \o sep \o JoinWith(Tail(parts), sep)

\* the least element of a non-empty set of integers
Least(S) == CHOOSE x \in S : \A y \in S : x <= y
\* the greatest element of a non-empty set of integers
Greatest(S) == CHOOSE x \in S : \A y \in S : y <= x

\* the position after the longest run of characters of class C starting at i
SkipClass(t, i, C) ==
    IF i > Len(t) THEN i
    ELSE Least({j \in i..(Len(t) + 1) : At(t, j) \notin C})

\* str.strip()
Strip(s) ==
    LET keep == {i \in DOMAIN s : s[i] \notin Whitespace}
    IN  IF keep = {} THEN <<>> ELSE SubSeq(s, Least(keep), Greatest(keep))

\* the texts of at most n fragments of F, separated by single spaces
TextsOf(F, n) ==
    {JoinWith(fs, <<" ">>) : fs \in UNION {[1..k -> F] : k \in 1..n}}

----------------------------------------------------------------------------
(* extract_pan_number and extract_gstin                                    *)

\* [A-Z]{5}[0-9]{4}[A-Z]{1} matches at position i
PanAt(t, i) ==
    /\ i + 9 <= Len(t)
    /\ AllIn(t, i, i + 4, Upper)
    /\ AllIn(t, i + 5, i + 8, Digit)
    /\ t[i + 9] \in Upper

\* pan_pattern.search(t), then match.group() if match else None
extract_pan_number(t) ==
    LET found == {i \in 1..Len(t) : PanAt(t, i)}
    IN  IF found = {} THEN None
        ELSE Some(SubSeq(t, Least(found), Least(found) + 9))

\* [1-9A-Z]{1}, the thirteenth character of the GSTIN pattern
GstinEntityZeroToo == Digit \cup Upper
GstinEntity == (Digit \ {"0"}) \cup Upper

\* \d{2}[A-Z]{5}\d{4}[A-Z]{1}[1-9A-Z]{1}Z[0-9A-Z]{1} matches at position i
GstinAt(t, i) ==
    /\ i + 14 <= Len(t)
    /\ AllIn(t, i, i + 1, Digit)
    /\ AllIn(t, i + 2, i + 6, Upper)
    /\ AllIn(t, i + 7, i + 10, Digit)
    /\ t[i + 11] \in Upper
    /\ t[i + 12] \in GstinEntity
    /\ t[i + 13] = "Z"
    /\ t[i + 14] \in Digit \cup Upper

\* gstin_pattern.search(t), then match.group() if match else None
extract_gstin(t) ==
    LET found == {i \in 1..Len(t) : GstinAt(t, i)}
    IN  IF found = {} THEN None
        ELSE Some(SubSeq(t, Least(found), Least(found) + 14))

----------------------------------------------------------------------------
(* extract_dates                                                           *)

\* number of date patterns in date_formats
NumDateFormats == 4

\* \d{1,2} followed by the separator sep, at position i: the number of
\* digits taken (the quantifier is greedy, the separator decides), 0 if the
\* pattern fails there
DayOrMonthLen(t, i, sep) ==
    IF At(t, i) \in Digit /\ At(t, i + 1) \in Digit /\ At(t, i + 2) = sep THEN 2
    ELSE IF At(t, i) \in Digit /\ At(t, i + 1) = sep THEN 1
    ELSE 0

\* \d{1,2}<sep>\d{1,2}<sep>\d{n} at position i: length of the match, 0 if none
DayFirstLen(t, i, sep, n) ==
    LET a == DayOrMonthLen(t, i, sep)
        b == DayOrMonthLen(t, i + a + 1, sep)
    IN  IF a = 0 \/ b = 0 THEN 0
        ELSE IF AllIn(t, i + a + b + 2, i + a + b + n + 1, Digit)
             THEN a + b + n + 2
             ELSE 0

\* \d{4}-\d{1,2}-\d{1,2} at position i: length of the match, 0 if none
YearFirstLen(t, i) ==
    LET b == DayOrMonthLen(t, i + 5, "-")
    IN  IF ~(AllIn(t, i, i + 3, Digit) /\ At(t, i + 4) = "-") \/ b = 0 THEN 0
        ELSE IF At(t, i + b + 6) \in Digit /\ At(t, i + b + 7) \in Digit
             THEN b + 8
        ELSE IF At(t, i + b + 6) \in Digit THEN b + 7
        ELSE 0

\* the k-th pattern of date_formats at position i: length of the match, or 0
DateFormatLen(k, t, i) ==
    CASE k = 1 -> DayFirstLen(t, i, "/", 4)
      [] k = 2 -> DayFirstLen(t, i, "-", 4)
      [] k = 3 -> YearFirstLen(t, i)
      [] k = 4 -> DayFirstLen(t, i, "/", 2)

RECURSIVE FindIter(_, _, _)
\* [m.group() for m in re.finditer(date_formats[k], t)], scanning from pos:
\* leftmost match first, the scan resumes at the end of each match
FindIter(k, t, pos) ==
    LET found == {i \in pos..Len(t) : DateFormatLen(k, t, i) > 0}
    IN  IF found = {} THEN <<>>
        ELSE LET i == Least(found)
                 n == DateFormatLen(k, t, i)
             IN  <<SubSeq(t, i, i + n - 1)>> \o FindIter(k, t, i + n)

RECURSIVE Split(_, _)
\* str.split(sep)
Split(s, sep) ==
    IF \A i \in DOMAIN s : s[i] # sep THEN <<s>>
    ELSE LET i == CHOOSE j \in DOMAIN s :
                      s[j] = sep /\ \A h \in 1..(j - 1) : s[h] # sep
         IN  <<SubSeq(s, 1, i - 1)>> \o Split(SubSeq(s, i + 1, Len(s)), sep)

RECURSIVE ToInt(_)
\* int() of a string of digits
ToInt(ds) ==
    IF ds = <<>> THEN 0
    ELSE 10 * ToInt(SubSeq(ds, 1, Len(ds) - 1)) + DigitVal(ds[Len(ds)])

IsLeap(y) == (y % 4 = 0 /\ y % 100 # 0) \/ y % 400 = 0

DaysInMonth(m, y) ==
    IF m = 2 THEN (IF IsLeap(y) THEN 29 ELSE 28)
    ELSE IF m \in {4, 6, 9, 11} THEN 30 ELSE 31

\* %y of strptime: 00..68 are 2000..2068, 69..99 are 1969..1999
TwoDigitYear(yy) == IF yy <= 68 THEN 2000 + yy ELSE 1900 + yy

\* datetime(y, m, d): the value, or ValueError when there is no such day
MakeDate(y, m, d) ==
    IF y >= 1 /\ m \in 1..12 /\ d >= 1 /\ d <= DaysInMonth(m, y)
    THEN [ok |-> TRUE, date |-> y * 10000 + m * 100 + d]
    ELSE [ok |-> FALSE, date |-> 0]

\* the body of the try block: the format is chosen from the separator and
\* the lengths of the fields, then datetime.strptime parses the match
ParseDate(date_str) ==
    IF "/" \in Range(date_str)
    THEN LET p == Split(date_str, "/")
         IN  IF Len(p[3]) = 2
             THEN MakeDate(TwoDigitYear(ToInt(p[3])), ToInt(p[2]), ToInt(p[1]))
             ELSE MakeDate(ToInt(p[3]), ToInt(p[2]), ToInt(p[1]))
    ELSE LET p == Split(date_str, "-")
         IN  IF Len(p[1]) = 4
             THEN MakeDate(ToInt(p[1]), ToInt(p[2]), ToInt(p[3]))
             ELSE MakeDate(ToInt(p[3]), ToInt(p[2]), ToInt(p[1]))

RECURSIVE ParseAll(_)
\* the inner loop: a match that raises ValueError is skipped
ParseAll(matches) ==
    IF matches = <<>> THEN <<>>
    ELSE LET r == ParseDate(Head(matches))
         IN  (IF r.ok THEN <<r.date>> ELSE <<>>) \o ParseAll(Tail(matches))

RECURSIVE DatesFrom(_, _)
\* the outer loop over date_formats, from the k-th pattern on
DatesFrom(k, t) ==
    IF k > NumDateFormats THEN <<>>
    ELSE ParseAll(FindIter(k, t, 1)) \o DatesFrom(k + 1, t)

extract_dates(t) == DatesFrom(1, t)

\* max(ds) of a non-empty list
Max(ds) == Greatest(Range(ds))

\* line 208: notice_date = max(dates) if dates else None
NoticeDateOf(ds) == IF ds # <<>> THEN Some(Max(ds)) ELSE None

\* line 240: compliance_deadline = max(dates) if len(dates) > 1 else None
ComplianceDeadlineOfEarliest(ds) ==
    IF Len(ds) > 1 THEN Some(Least(Range(ds))) ELSE None
ComplianceDeadlineOf(ds) == IF Len(ds) > 1 THEN Some(Max(ds)) ELSE None

----------------------------------------------------------------------------
(* extract_penalty_amount                                                  *)

\* number of patterns in amount_patterns
NumAmountPatterns == 3

RECURSIVE SkipGroups(_, _)
\* (?:,\d{3})* from position p: the position after the last group taken
SkipGroups(t, p) ==
    IF At(t, p) = "," /\ AllIn(t, p + 1, p + 3, Digit)
    THEN SkipGroups(t, p + 4) ELSE p

\* \d{1,3}: how many digits the greedy quantifier takes at position j
LeadDigits(t, j) ==
    IF At(t, j) \notin Digit THEN 0
    ELSE IF At(t, j + 1) \notin Digit THEN 1
    ELSE IF At(t, j + 2) \notin Digit THEN 2
    ELSE 3

\* the group (\d{1,3}(?:,\d{3})*(?:\.\d{2})?) at position j: its length, 0 if
\* it does not match there
NumberLen(t, j) ==
    LET a == LeadDigits(t, j)
        p == SkipGroups(t, j + a)
    IN  IF a = 0 THEN 0
        ELSE IF At(t, p) = "." /\ AllIn(t, p + 1, p + 2, Digit)
             THEN p + 3 - j
             ELSE p - j

\* literals of the patterns, in lower case
PENALTY == <<"p", "e", "n", "a", "l", "t", "y">>

\* Rs\.?\s* at position i: the position where the group must start, 0 if the
\* prefix does not match (re.IGNORECASE)
RsPrefix(t, i) ==
    IF ~LitAtCI(t, i, <<"r", "s">>) THEN 0
    ELSE SkipClass(t, IF At(t, i + 2) = "." THEN i + 3 ELSE i + 2, Whitespace)

\* INR\s* at position i
InrPrefix(t, i) ==
    IF ~LitAtCI(t, i, <<"i", "n", "r">>) THEN 0
    ELSE SkipClass(t, i + 3, Whitespace)

\* Penalty.*?\s* at position i: the lazy .*? stops at the first digit after
\* the keyword, which must be reachable by characters other than newline
\* followed by whitespace
PenaltyPrefix(t, i) ==
    IF ~LitAtCI(t, i, PENALTY) THEN 0
    ELSE LET d == SkipClass(t, i + 7, Range(t) \ Digit)
         IN  IF d > Len(t) THEN 0
             ELSE IF \E p \in (i + 7)..d :
                        /\ \A h \in (i + 7)..(p - 1) : t[h] # "\n"
                        /\ \A h \in p..(d - 1) : t[h] \in Whitespace
                  THEN d
                  ELSE 0

\* the k-th pattern of amount_patterns at position i: <<start, length>> of
\* group 1, or <<0, 0>> if the pattern does not match at i
AmountGroupAt(k, t, i) ==
    LET j == CASE k = 1 -> RsPrefix(t, i)
               [] k = 2 -> InrPrefix(t, i)
               [] k = 3 -> PenaltyPrefix(t, i)
        n == NumberLen(t, j)
    IN  IF j = 0 \/ n = 0 THEN <<0, 0>> ELSE <<j, n>>

\* re.search(amount_patterns[k], t, re.IGNORECASE).group(1), None if no match
AmountSearch(k, t) ==
    LET found == {i \in 1..Len(t) : AmountGroupAt(k, t, i)[2] > 0}
    IN  IF found = {} THEN None
        ELSE LET g == AmountGroupAt(k, t, Least(found))
             IN  Some(SubSeq(t, g[1], g[1] + g[2] - 1))

\* str.replace(',', '')
StripCommas(s) == SelectSeq(s, LAMBDA c : c # ",")

\* float(s) of digits with an optional two-digit fraction, in hundredths
ToHundredths(s) ==
    LET p == Split(s, ".")
    IN  100 * ToInt(p[1]) + (IF Len(p) > 1 THEN ToInt(p[2]) ELSE 0)

\* MonetaryAmount(amount, "INR")
MonetaryAmount(amount, currency) == [amount |-> amount, currency |-> currency]

RECURSIVE AmountFrom(_, _)
\* the loop over amount_patterns from the k-th pattern on: the first pattern
\* that matches anywhere decides
AmountFrom(k, t) ==
    IF k > NumAmountPatterns THEN None
    ELSE LET m == AmountSearch(k, t)
         IN  IF m = None THEN AmountFrom(k + 1, t)
             ELSE Some(MonetaryAmount(ToHundredths(StripCommas(m[1])), "INR"))

extract_penalty_amount(t) == AmountFrom(1, t)

----------------------------------------------------------------------------
(* extract_legal_sections                                                  *)

SECTION == <<"s", "e", "c", "t", "i", "o", "n">>

\* the position of the first ")" at or after p, Len(t) + 1 if there is none
FirstClose(t, p) == SkipClass(t, p, Range(t) \ {")"})

\* Section\s*(\d+[A-Za-z]*(?:\s*\([^)]+\))?) at position i: <<start, length>>
\* of group 1, or <<0, 0>> if the pattern does not match at i
SectionGroupAt(t, i) ==
    LET j == SkipClass(t, i + 7, Whitespace)
        e == SkipClass(t, j, Digit)
        f == SkipClass(t, e, Letter)
        g == SkipClass(t, f, Whitespace)
        h == FirstClose(t, g + 1)
    IN  IF ~LitAtCI(t, i, SECTION) \/ e = j THEN <<0, 0>>
        ELSE IF At(t, g) = "(" /\ h >= g + 2 /\ h <= Len(t)
             THEN <<j, h + 1 - j>>
             ELSE <<j, f - j>>

\* LegalSection(section_number), description left at its default
LegalSection(section_number) ==
    [section_number |-> section_number, description |-> None]

RECURSIVE SectionsFrom(_, _)
\* re.findall(section_pattern, t, re.IGNORECASE) from position i, each group
\* stripped and wrapped in a LegalSection
SectionsFrom(t, pos) ==
    LET found == {i \in pos..Len(t) : SectionGroupAt(t, i)[2] > 0}
    IN  IF found = {} THEN <<>>
        ELSE LET g == SectionGroupAt(t, Least(found))
             IN  <<LegalSection(Strip(SubSeq(t, g[1], g[1] + g[2] - 1)))>>
                 \o SectionsFrom(t, g[1] + g[2])

extract_legal_sections(t) == SectionsFrom(t, 1)

----------------------------------------------------------------------------
(* the notice-type loop of analyze_text                                    *)

\* notice_keywords, in the order of the dict literal
notice_keywords == <<
    [nt |-> "Scrutiny Notice",
     keywords |-> <<<<"s", "c", "r", "u", "t", "i", "n", "y">>,
                    <<"e", "x", "a", "m", "i", "n", "a", "t", "i", "o", "n">>,
                    <<"v", "e", "r", "i", "f", "i", "c", "a", "t", "i", "o", "n">>>>],
    [nt |-> "Demand Notice",
     keywords |-> <<<<"d", "e", "m", "a", "n", "d">>,
                    <<"p", "a", "y", "a", "b", "l", "e">>,
                    <<"o", "u", "t", "s", "t", "a", "n", "d", "i", "n", "g">>>>],
    [nt |-> "Penalty Notice",
     keywords |-> <<<<"p", "e", "n", "a", "l", "t", "y">>,
                    <<"f", "i", "n", "e">>,
                    <<"p", "u", "n", "i", "s", "h", "m", "e", "n", "t">>>>],
    [nt |-> "Intimation",
     keywords |-> <<<<"i", "n", "t", "i", "m", "a", "t", "i", "o", "n">>,
                    <<"i", "n", "f", "o", "r", "m", "a", "t", "i", "o", "n">>,
                    <<"c", "o", "m", "m", "u", "n", "i", "c", "a", "t", "i", "o", "n">>>>] >>

RECURSIVE NoticeTypeFrom(_, _)
\* the first category, from the k-th on, one of whose keywords occurs in t
NoticeTypeFrom(k, t) ==
    IF k > Len(notice_keywords) THEN None
    ELSE IF \E w \in Range(notice_keywords[k].keywords) : ContainsCI(t, w)
         THEN Some(notice_keywords[k].nt)
         ELSE NoticeTypeFrom(k + 1, t)

classify_notice_type(t) == NoticeTypeFrom(1, t)

----------------------------------------------------------------------------
(* extract_issuing_office                                                  *)

ISSUING_OFFICE == <<"i", "s", "s", "u", "i", "n", "g", " ", "o", "f", "f", "i", "c", "e", ":">>
OFFICE == <<"o", "f", "f", "i", "c", "e">>
OF == <<"o", "f">>
THE == <<"t", "h", "e">>
INCOME_TAX_OFFICE == <<"i", "n", "c", "o", "m", "e", " ", "t", "a", "x", " ", "o", "f", "f", "i", "c", "e">>

\* the position after the last character of the line that contains p
EndOfLine(t, p) == SkipClass(t, p, Range(t) \ {"\n"})

\* \s*(.+) from position q: <<start, length>> of the group, <<0, 0>> if it
\* fails.  \s* is greedy and gives characters back one at a time until .+
\* finds a character that is not a newline.
RestOfLineGroup(t, q) ==
    LET w == SkipClass(t, q, Whitespace)
        back == {p \in q..(w - 1) : t[p] # "\n"}
    IN  IF w <= Len(t) THEN <<w, EndOfLine(t, w) - w>>
        ELSE IF back = {} THEN <<0, 0>>
        ELSE <<Greatest(back), EndOfLine(t, Greatest(back)) - Greatest(back)>>

\* Issuing Office:\s*(.+) at position i
OfficeLabelAt(t, i) ==
    IF LitAtCI(t, i, ISSUING_OFFICE)
    THEN RestOfLineGroup(t, i + Len(ISSUING_OFFICE)) ELSE <<0, 0>>

\* Office\s*of\s*the\s*(.+) at position i
OfficeOfTheAt(t, i) ==
    LET a == SkipClass(t, i + Len(OFFICE), Whitespace)
        b == SkipClass(t, a + Len(OF), Whitespace)
    IN  IF LitAtCI(t, i, OFFICE) /\ LitAtCI(t, a, OF) /\ LitAtCI(t, b, THE)
        THEN RestOfLineGroup(t, b + Len(THE)) ELSE <<0, 0>>

\* [A-Z][a-z]+(?:\s+[A-Z][a-z]+)*\s*Income Tax Office matches somewhere in t:
\* a word of two letters or more, optional whitespace, then the literal
IncomeTaxOfficeFound(t) ==
    \E i \in 1..Len(t) :
        /\ LitAtCI(t, i, INCOME_TAX_OFFICE)
        /\ \E j \in 3..i :
              /\ \A h \in j..(i - 1) : t[h] \in Whitespace
              /\ t[j - 1] \in Letter
              /\ t[j - 2] \in Letter

\* the k-th pattern (k = 1, 2) at position i
OfficeGroupAt(k, t, i) ==
    IF k = 1 THEN OfficeLabelAt(t, i) ELSE OfficeOfTheAt(t, i)

\* re.search of the k-th pattern (k = 1, 2): the group, None if no match
OfficeSearch(k, t) ==
    LET found == {i \in 1..Len(t) : OfficeGroupAt(k, t, i)[2] > 0}
    IN  IF found = {} THEN None
        ELSE LET g == OfficeGroupAt(k, t, Least(found))
             IN  Some(SubSeq(t, g[1], g[1] + g[2] - 1))

\* extract_issuing_office: the stripped group of the first pattern that
\* matches; the third pattern has no group, so match.group(1) raises
\* IndexError when it is the one that matches
extract_issuing_office(t) ==
    LET m1 == OfficeSearch(1, t)
        m2 == OfficeSearch(2, t)
    IN  IF m1 # None THEN [raises |-> None, value |-> Some(Strip(m1[1]))]
        ELSE IF m2 # None THEN [raises |-> None, value |-> Some(Strip(m2[1]))]
        ELSE IF IncomeTaxOfficeFound(t)
             THEN [raises |-> Some("IndexError"), value |-> None]
             ELSE [raises |-> None, value |-> None]

----------------------------------------------------------------------------
(* The records: Metadata, AnalysisResult                                   *)

\* Metadata(original_language, confidence_score); the score is in tenths
Metadata(original_language, confidence_score) ==
    [original_language |-> original_language,
     confidence_score |-> confidence_score]

\* the fields the dataclass AnalysisResult declares
AnalysisResultFields ==
    {"metadata", "text", "client_name", "pan_number", "gstin", "notice_type",
     "notice_date", "penalty_amount", "legal_sections", "compliance_deadline",
     "issuing_officer", "issuing_office"}

\* str(e) of the TypeError the generated __init__ raises
UnexpectedKeyword ==
    "AnalysisResult.__init__() got an unexpected keyword argument"

\* AnalysisResult(**kwargs): the generated __init__ takes the declared fields
\* only; metadata has no default, every other field defaults to None
AnalysisResult(kwargs) ==
    IF ~(DOMAIN kwargs \subseteq AnalysisResultFields)
       \/ "metadata" \notin DOMAIN kwargs
    THEN [raises |-> Some([type |-> "TypeError", msg |-> UnexpectedKeyword]),
          value |-> None]
    ELSE [raises |-> None,
          value |-> Some([f \in AnalysisResultFields |->
                            IF f \in DOMAIN kwargs THEN kwargs[f] ELSE None])]

\* lines 262-265: the record for a path that does not exist
DocumentNotFoundResult ==
    AnalysisResult([metadata |-> Metadata("unknown", 0),
                    text |-> Some(<<"Document not found">>)])

\* lines 198-201: the record for empty or whitespace-only text
NoTextResultAssumingSuccess ==
    AnalysisResult([metadata |-> Metadata("en", 9),
                    text |-> Some(<<"No text extracted from document">>)])
NoTextResult ==
    AnalysisResult([metadata |-> Metadata("unknown", 0),
                    text |-> Some(<<"No text extracted from document">>)])

\* lines 277-280: the record the handler of process_document builds
ErrorResult(e) ==
    AnalysisResult([metadata |-> Metadata("unknown", 0),
                    text |-> Some(<<"Error processing document: ", e.msg>>)])

\* lines 276-280: except Exception as e returns the error record
PropagateException(e) == [outcome |-> "raised", result |-> None]
HandleException(e) == [outcome |-> "returned", result |-> ErrorResult(e).value]

----------------------------------------------------------------------------
(* The collaborators: language detection, translation, OCR                 *)

\* what langdetect.detect can do on the sample text[:500]: return a code or
\* raise; the detector is a collaborator, so its answer is a free choice
DetectOutcomes == {"en", "mr", "ta", "fr", "<raises>"}

\* detect_document_language: the grouping of the codes and the default
detect_document_language(detected) ==
    IF detected = "<raises>" THEN "en"
    ELSE IF detected \in {"te", "kn", "ml", "ta"} THEN "te"
    ELSE IF detected \in {"hi", "mr", "bn", "pa", "gu"} THEN "hi"
    ELSE detected

\* the chunk size of translate_text
ChunkSize == 5000

RECURSIVE Chunks(_)
\* [text[i:i+5000] for i in range(0, len(text), 5000)]
Chunks(s) ==
    IF s = <<>> THEN <<>>
    ELSE IF Len(s) <= ChunkSize THEN <<s>>
    ELSE <<SubSeq(s, 1, ChunkSize)>> \o Chunks(SubSeq(s, ChunkSize + 1, Len(s)))

\* translate_text(s, src_lang) given what the translator does on each chunk:
\* outs[i] is Some(translation), or None when the call raises and the chunk
\* is kept as it is
translate_text(s, src_lang, outs) ==
    IF src_lang = "en" THEN s
    ELSE LET chunks == Chunks(s)
         IN  JoinWith([i \in DOMAIN chunks |->
                          IF outs[i] = None THEN chunks[i] ELSE outs[i][1]],
                      <<" ">>)

\* one page of extract_text_from_pdf: the reading with the Indian-language
\* configuration, replaced by the English-only reading when it is blank or
\* shorter than 20 characters, followed by two newlines
PdfPageText(page) ==
    (IF Strip(page.indic) = <<>> \/ Len(Strip(page.indic)) < 20
     THEN page.plain ELSE page.indic) \o <<"\n", "\n">>

\* extract_text_from_pdf: all pages in order, or "" when anything raises
extract_text_from_pdf(pages, raises) ==
    IF raises THEN <<>>
    ELSE Concat([i \in DOMAIN pages |-> PdfPageText(pages[i])])

\* extract_text_from_image: the first reading, the default-configuration
\* reading when the first is blank, or "" when anything raises
extract_text_from_image(page, raises) ==
    IF raises THEN <<>>
    ELSE IF Strip(page.indic) = <<>> THEN page.plain ELSE page.indic

\* str.endswith
EndsWith(s, suffix) ==
    /\ Len(s) >= Len(suffix)
    /\ SubSeq(s, Len(s) - Len(suffix) + 1, Len(s)) = suffix

----------------------------------------------------------------------------
(* The documents the entry point is run on                                 *)

\* at most this many fragments in a recognized page
MaxNoticeFrags == 2

NoticeFragments == {
    <<"P", "A", "N", " ", "A", "B", "C", "D", "E", "1", "2", "3", "4", "F">>,
    <<"d", "a", "t", "e", "d", " ", "0", "5", "/", "0", "3", "/", "2", "4">>,
    <<"r", "e", "p", "l", "y", " ", "b", "y", " ", "2", "0", "-", "0", "4", "-", "2", "0", "2", "4">>,
    <<"p", "e", "n", "a", "l", "t", "y", " ", "o", "f", " ", "R", "s", ".", " ", "1", "0", ",", "0", "0", "0", ".", "0", "0">>,
    <<"u", "n", "d", "e", "r", " ", "S", "e", "c", "t", "i", "o", "n", " ", "1", "4", "2", "(", "1", ")">>,
    <<"M", "u", "m", "b", "a", "i", " ", "I", "n", "c", "o", "m", "e", " ", "T", "a", "x", " ", "O", "f", "f", "i", "c", "e">>,
    <<"I", "s", "s", "u", "i", "n", "g", " ", "O", "f", "f", "i", "c", "e", ":", " ", "P", "u", "n", "e">> }

\* a notice with a PAN, a GSTIN, one date, one "Rs." amount, two sections
\* and the keyword "penalty"
SampleNotice ==
    <<"P", "A", "N", ":", " ", "A", "B", "C", "D", "E", "1", "2", "3", "4", "F", " ", "G", "S", "T", "I", "N", ":", " ", "2", "2", "A", "B", "C", "D", "E", "1", "2", "3", "4", "F", "1", "Z", "5", " ">>
    \o <<"D", "a", "t", "e", ":", " ", "0", "5", "/", "0", "3", "/", "2", "4", "\n", "P", "e", "n", "a", "l", "t", "y", " ", "o", "f", " ", "R", "s", ".", " ", "1", "0", ",", "0", "0", "0", ".", "0", "0", " ">>
    \o <<"u", "n", "d", "e", "r", " ", "S", "e", "c", "t", "i", "o", "n", " ", "8", "0", " ", "a", "n", "d", " ", "S", "e", "c", "t", "i", "o", "n", " ", "1", "4", "2", "(", "1", ")">>

BlankTexts == {<<>>, <<" ", "\n">>}

\* what the OCR engine can read on a page
PageTexts ==
    TextsOf(NoticeFragments, MaxNoticeFrags) \cup {SampleNotice} \cup BlankTexts

\* what the second OCR pass can read on a page
SecondPassTexts == {<<>>, SampleNotice, <<"f", "i", "n", "e", " ", "R", "s", ".", " ", "5", "0", "0">>}

Pages == [indic : PageTexts, plain : SecondPassTexts]

\* the PDFs: no page, one page, and one two-page document
PdfDocuments ==
    {<<>>} \cup {<<pg>> : pg \in Pages}
    \cup {<<[indic |-> SampleNotice, plain |-> <<>>],
            [indic |-> <<>>, plain |-> <<"f", "i", "n", "e", " ", "R", "s", ".", " ", "5", "0", "0">>]>>}

\* what the translator can return for a chunk
TranslatorOutputs == {<<"M", "u", "m", "b", "a", "i", " ", "I", "n", "c", "o", "m", "e", " ", "T", "a", "x", " ", "O", "f", "f", "i", "c", "e", " ", "0", "5", "/", "0", "3", "/", "2", "0", "2", "4">>}

Paths == {<<"N", "O", "T", "I", "C", "E", ".", "P", "D", "F">>, <<"n", "o", "t", "i", "c", "e", ".", "p", "n", "g">>}

PDF_SUFFIX == <<".", "p", "d", "f">>

----------------------------------------------------------------------------
(* process_document and analyze_text, one action per step                  *)

Init ==
    /\ pc = "idle"
    /\ doc_path = <<>>
    /\ path_exists = FALSE
    /\ languages_kw = FALSE
    /\ text = <<>>
    /\ lang = ""
    /\ translated_text = <<>>
    /\ dates = <<>>
    /\ notice_date = None
    /\ pan_number = None
    /\ gstin = None
    /\ penalty_amount = None
    /\ legal_sections = <<>>
    /\ notice_type = None
    /\ compliance_deadline = None
    /\ issuing_office = None
    /\ exc = None
    /\ result = None
    /\ outcome = "none"

locals == <<lang, translated_text, dates, notice_date, pan_number, gstin,
            penalty_amount, legal_sections, notice_type, compliance_deadline,
            issuing_office>>

\* the call: the signature is process_document(self, doc_path), so a call
\* that also passes languages=[...] raises TypeError before the body runs
CallProcessDocument ==
    /\ pc = "idle"
    /\ \E p \in Paths, e \in BOOLEAN, kw \in BOOLEAN :
          /\ doc_path' = p
          /\ path_exists' = e
          /\ languages_kw' = kw
          /\ IF kw
             THEN /\ pc' = "done"
                  /\ outcome' = "raised"
                  /\ exc' = Some([type |-> "TypeError",
                                  msg |-> "process_document() got an unexpected keyword argument"])
             ELSE /\ pc' = "try"
                  /\ UNCHANGED <<outcome, exc>>
    /\ UNCHANGED <<text, result, locals>>

\* lines 261-265
PathMissing ==
    /\ pc = "try"
    /\ ~path_exists
    /\ result' = DocumentNotFoundResult.value
    /\ outcome' = "returned"
    /\ pc' = "done"
    /\ UNCHANGED <<doc_path, path_exists, languages_kw, text, exc, locals>>

\* lines 268-269
ExtractTextFromPdf ==
    /\ pc = "try"
    /\ path_exists
    /\ EndsWith(StrLower(doc_path), PDF_SUFFIX)
    /\ \E pages \in PdfDocuments, raises \in BOOLEAN :
          text' = extract_text_from_pdf(pages, raises)
    /\ pc' = "analyze"
    /\ UNCHANGED <<doc_path, path_exists, languages_kw, exc, result, outcome,
                   locals>>

\* lines 270-271
ExtractTextFromImage ==
    /\ pc = "try"
    /\ path_exists
    /\ ~EndsWith(StrLower(doc_path), PDF_SUFFIX)
    /\ \E page \in Pages, raises \in BOOLEAN :
          text' = extract_text_from_image(page, raises)
    /\ pc' = "analyze"
    /\ UNCHANGED <<doc_path, path_exists, languages_kw, exc, result, outcome,
                   locals>>

\* lines 197-201
AnalyzeBlankText ==
    /\ pc = "analyze"
    /\ Strip(text) = <<>>
    /\ result' = NoTextResult.value
    /\ outcome' = "returned"
    /\ pc' = "done"
    /\ UNCHANGED <<doc_path, path_exists, languages_kw, text, exc, locals>>

\* line 203
DetectLanguage ==
    /\ pc = "analyze"
    /\ Strip(text) # <<>>
    /\ \E detected \in DetectOutcomes :
          lang' = detect_document_language(detected)
    /\ pc' = "translate"
    /\ UNCHANGED <<doc_path, path_exists, languages_kw, text, exc, result,
                   outcome, translated_text, dates, notice_date, pan_number,
                   gstin, penalty_amount, legal_sections, notice_type,
                   compliance_deadline, issuing_office>>

\* line 204
Translate ==
    /\ pc = "translate"
    /\ IF lang # "en"
       THEN \E outs \in [DOMAIN Chunks(text) ->
                            {None} \cup {Some(o) : o \in TranslatorOutputs}] :
               translated_text' = translate_text(text, lang, outs)
       ELSE translated_text' = text
    /\ pc' = "extract"
    /\ UNCHANGED <<doc_path, path_exists, languages_kw, text, exc, result,
                   outcome, lang, dates, notice_date, pan_number, gstin,
                   penalty_amount, legal_sections, notice_type,
                   compliance_deadline, issuing_office>>

\* lines 206-228
ExtractFields ==
    /\ pc = "extract"
    /\ dates' = extract_dates(translated_text)
    /\ notice_date' = NoticeDateOf(dates')
    /\ pan_number' = extract_pan_number(translated_text)
    /\ gstin' = extract_gstin(translated_text)
    /\ penalty_amount' = extract_penalty_amount(translated_text)
    /\ legal_sections' = extract_legal_sections(translated_text)
    /\ notice_type' = classify_notice_type(translated_text)
    /\ pc' = "build"
    /\ UNCHANGED <<doc_path, path_exists, languages_kw, text, exc, result,
                   outcome, lang, translated_text, compliance_deadline,
                   issuing_office>>

\* the keyword arguments of the call at lines 230-242
ResultArguments(office) ==
    [metadata |-> Metadata(lang, 9),
     text |-> Some(text),
     translated_text |-> Some(translated_text),
     pan_number |-> pan_number,
     gstin |-> gstin,
     notice_type |-> notice_type,
     notice_date |-> notice_date,
     penalty_amount |-> penalty_amount,
     legal_sections |-> Some(legal_sections),
     compliance_deadline |-> ComplianceDeadlineOf(dates),
     issuing_office |-> office]

\* lines 230-242: the arguments are evaluated in order, extract_issuing_office
\* last, then AnalysisResult is called
BuildResult ==
    /\ pc = "build"
    /\ compliance_deadline' = ComplianceDeadlineOf(dates)
    /\ LET office == extract_issuing_office(translated_text)
           built == AnalysisResult(ResultArguments(office.value))
       IN  IF office.raises # None
           THEN /\ exc' = Some([type |-> office.raises[1],
                                msg |-> "no such group"])
                /\ pc' = "except"
                /\ UNCHANGED <<issuing_office, result, outcome>>
           ELSE /\ issuing_office' = office.value
                /\ IF built.raises # None
                   THEN /\ exc' = built.raises
                        /\ pc' = "except"
                        /\ UNCHANGED <<result, outcome>>
                   ELSE /\ result' = built.value
                        /\ outcome' = "returned"
                        /\ pc' = "done"
                        /\ exc' = exc
    /\ UNCHANGED <<doc_path, path_exists, languages_kw, text, lang,
                   translated_text, dates, notice_date, pan_number, gstin,
                   penalty_amount, legal_sections, notice_type>>

\* lines 276-280
CatchException ==
    /\ pc = "except"
    /\ result' = HandleException(exc[1]).result
    /\ outcome' = HandleException(exc[1]).outcome
    /\ pc' = "done"
    /\ UNCHANGED <<doc_path, path_exists, languages_kw, text, exc, locals>>

Next ==
    \/ CallProcessDocument
    \/ PathMissing
    \/ ExtractTextFromPdf
    \/ ExtractTextFromImage
    \/ AnalyzeBlankText
    \/ DetectLanguage
    \/ Translate
    \/ ExtractFields
    \/ BuildResult
    \/ CatchException

Spec == Init /\ [][Next]_vars

----------------------------------------------------------------------------
(* The extractors on their own: each is applied to texts drawn from a      *)
(* bounded set                                                             *)

\* the values of the variables an extractor run does not use
Unused ==
    /\ doc_path = <<>>
    /\ path_exists = FALSE
    /\ languages_kw = FALSE
    /\ lang = ""
    /\ translated_text = <<>>
    /\ exc = None
    /\ result = None
    /\ outcome = "none"

\* at most this many fragments in a text given to extract_gstin
MaxGstinFrags == 2

GstinFragments == {
    <<"2", "2", "A", "B", "C", "D", "E", "1", "2", "3", "4", "F", "1", "Z", "5">>,
    <<"2", "7", "P", "Q", "R", "S", "T", "5", "6", "7", "8", "K", "2", "Z", "A">>,
    <<"2", "2", "A", "B", "C", "D", "E", "1", "2", "3", "4", "F", "0", "Z", "5">>,
    <<"A", "B", "C", "D", "E", "1", "2", "3", "4", "F">>,
    <<"2", "2", "A", "B", "C", "D", "E", "1", "2", "3", "4", "F", "1", "Y", "5">>,
    <<"9", "2", "2", "A", "B", "C", "D", "E", "1", "2", "3", "4", "F", "A", "Z", "Z", "9">>,
    <<"2", "2", "a", "b", "c", "d", "e", "1", "2", "3", "4", "f", "1", "z", "5">>,
    <<"G", "S", "T", "I", "N", ":">> }

GstinTexts == TextsOf(GstinFragments, MaxGstinFrags)

InitGstin ==
    /\ pc = "gstin_call"
    /\ text \in GstinTexts
    /\ Unused
    /\ dates = <<>> /\ notice_date = None /\ pan_number = None
    /\ gstin = None /\ penalty_amount = None /\ legal_sections = <<>>
    /\ notice_type = None /\ compliance_deadline = None
    /\ issuing_office = None

\* gstin = self.extract_gstin(text)
ApplyExtractGstin ==
    /\ pc = "gstin_call"
    /\ gstin' = extract_gstin(text)
    /\ pc' = "gstin_done"
    /\ UNCHANGED <<doc_path, path_exists, languages_kw, text, lang,
                   translated_text, dates, notice_date, pan_number,
                   penalty_amount, legal_sections, notice_type,
                   compliance_deadline, issuing_office, exc, result, outcome>>

NextGstin == ApplyExtractGstin

SpecGstin == InitGstin /\ [][NextGstin]_vars

\* at most this many fragments in a text given to extract_dates
MaxDateFrags == 2

DateFragments == {
    <<"0", "5", "/", "0", "3", "/", "2", "0", "2", "4">>,
    <<"5", "/", "3", "/", "2", "4">>,
    <<"0", "5", "/", "0", "3", "/", "1", "9", "9", "9">>,
    <<"2", "0", "2", "4", "-", "0", "3", "-", "0", "5">>,
    <<"2", "0", "-", "0", "4", "-", "2", "0", "2", "4">>,
    <<"3", "1", "/", "0", "2", "/", "2", "0", "2", "4">>,
    <<"2", "9", "/", "0", "2", "/", "2", "0", "2", "3">>,
    <<"3", "1", "-", "0", "4", "-", "2", "0", "2", "4">>,
    <<"d", "a", "t", "e", "d">> }

DateTexts == TextsOf(DateFragments, MaxDateFrags)

InitDates ==
    /\ pc = "dates_call"
    /\ text \in DateTexts
    /\ Unused
    /\ dates = <<>> /\ notice_date = None /\ pan_number = None
    /\ gstin = None /\ penalty_amount = None /\ legal_sections = <<>>
    /\ notice_type = None /\ compliance_deadline = None
    /\ issuing_office = None

\* line 207: dates = self.extract_dates(text)
ApplyExtractDates ==
    /\ pc = "dates_call"
    /\ dates' = extract_dates(text)
    /\ pc' = "dates_found"
    /\ UNCHANGED <<doc_path, path_exists, languages_kw, text, lang,
                   translated_text, notice_date, pan_number, gstin,
                   penalty_amount, legal_sections, notice_type,
                   compliance_deadline, issuing_office, exc, result, outcome>>

\* lines 208 and 240: the two date fields computed from dates
AssembleDates ==
    /\ pc = "dates_found"
    /\ notice_date' = NoticeDateOf(dates)
    /\ compliance_deadline' = ComplianceDeadlineOf(dates)
    /\ pc' = "dates_done"
    /\ UNCHANGED <<doc_path, path_exists, languages_kw, text, lang,
                   translated_text, dates, pan_number, gstin,
                   penalty_amount, legal_sections, notice_type,
                   issuing_office, exc, result, outcome>>

NextDates == ApplyExtractDates \/ AssembleDates

SpecDates == InitDates /\ [][NextDates]_vars

\* at most this many fragments in a text given to extract_penalty_amount
MaxAmountFrags == 2

AmountFragments == {
    <<"R", "s", ".", " ", "1", "0", ",", "0", "0", "0", ".", "0", "0">>,
    <<"I", "N", "R", " ", "5", ",", "0", "0", "0">>,
    <<"P", "e", "n", "a", "l", "t", "y", ":", " ", "2", ",", "5", "0", "0">>,
    <<"R", "s", ".", " ", "1", ",", "2", "3", "4", ",", "5", "6", "7", ".", "5", "0">>,
    <<"R", "s", ".", "2", "5", "0">>,
    <<"R", "s", ".", " ", "1", "0", "0", "0", "0">>,
    <<"y", "e", "a", "r", "s", " ", "2", "0", "2", "4">>,
    <<"t", "a", "x", " ", "d", "u", "e">> }

AmountTexts == TextsOf(AmountFragments, MaxAmountFrags)

InitAmount ==
    /\ pc = "amount_call"
    /\ text \in AmountTexts
    /\ Unused
    /\ dates = <<>> /\ notice_date = None /\ pan_number = None
    /\ gstin = None /\ penalty_amount = None /\ legal_sections = <<>>
    /\ notice_type = None /\ compliance_deadline = None
    /\ issuing_office = None

\* penalty_amount = self.extract_penalty_amount(text)
ApplyExtractPenaltyAmount ==
    /\ pc = "amount_call"
    /\ penalty_amount' = extract_penalty_amount(text)
    /\ pc' = "amount_done"
    /\ UNCHANGED <<doc_path, path_exists, languages_kw, text, lang,
                   translated_text, dates, notice_date, pan_number, gstin,
                   legal_sections, notice_type, compliance_deadline,
                   issuing_office, exc, result, outcome>>

NextAmount == ApplyExtractPenaltyAmount

SpecAmount == InitAmount /\ [][NextAmount]_vars

----------------------------------------------------------------------------
(* Properties of process_document and analyze_text (specification Spec)    *)

\* the call has finished and was made with the path as its only argument
ReturnedFromPlainCall == pc = "done" /\ ~languages_kw

\* the fields of AnalysisResult that hold extracted values
ExtractedFields == AnalysisResultFields \ {"metadata", "text"}

\* the placeholder strings of the three failure records
Placeholders ==
    {"Document not found", "No text extracted from document",
     "Error processing document: "}

\* r is a could-not-process record
CouldNotProcess(r) ==
    /\ r.metadata.original_language = "unknown"
    /\ r.metadata.confidence_score = 0
    /\ r.text # None
    /\ r.text[1] # <<>>
    /\ r.text[1][1] \in Placeholders
    /\ \A f \in ExtractedFields : r[f] = None

\* C1: a call process_document(doc_path) with the path as its only argument
\* always ends by returning a record; no exception reaches the caller,
\* whatever the path is and whatever the later steps do (OCR failing,
\* detection failing, translation failing, an extractor raising, the record
\* constructor raising).
C1_AlwaysReturnsRecord ==
    /\ ~languages_kw => outcome # "raised"
    /\ ReturnedFromPlainCall => outcome = "returned" /\ result # None

\* C1 witness: an exception was raised inside the call and the caller still
\* got a record.
C1_Witness ==
    ReturnedFromPlainCall /\ exc # None /\ outcome = "returned" /\ result # None

\* C2: for a readable document whose English text has a PAN, a GSTIN, one
\* date, one "Rs." amount, two sections and the keyword "penalty",
\* process_document returns a record with all six fields populated and
\* notice_type = "Penalty Notice".
C2_EndToEndSuccess ==
    (/\ ReturnedFromPlainCall
     /\ path_exists
     /\ lang = "en"
     /\ Strip(translated_text) = SampleNotice)
    => /\ outcome = "returned"
       /\ result # None
       /\ result[1].pan_number # None
       /\ result[1].gstin # None
       /\ result[1].notice_date # None
       /\ result[1].penalty_amount # None
       /\ result[1].legal_sections # None
       /\ Len(result[1].legal_sections[1]) = 2
       /\ result[1].notice_type = Some("Penalty Notice")

\* C3: when one extractor called by analyze_text raises (here
\* extract_issuing_office), the record is still assembled: that field is
\* absent, every sibling field holds what its own extractor produced, and
\* the record is not replaced by an error record.
C3_ExtractorFailureIsolated ==
    (/\ ReturnedFromPlainCall
     /\ exc # None
     /\ exc[1].type = "IndexError")
    => /\ result # None
       /\ result[1].metadata = Metadata(lang, 9)
       /\ result[1].issuing_office = None
       /\ result[1].pan_number = pan_number
       /\ result[1].gstin = gstin
       /\ result[1].notice_date = notice_date
       /\ result[1].penalty_amount = penalty_amount
       /\ result[1].notice_type = notice_type
       /\ result[1].legal_sections = Some(legal_sections)

\* C4: on every failure path of process_document (the path does not exist,
\* OCR gives empty or whitespace-only text, an exception is caught at the top
\* level) the returned record has original_language "unknown" and
\* confidence_score 0.0, a placeholder string as its text, and every
\* extracted field absent.
C4_CouldNotProcessRecord ==
    (/\ ReturnedFromPlainCall
     /\ (~path_exists \/ Strip(text) = <<>> \/ exc # None))
    => /\ result # None
       /\ CouldNotProcess(result[1])

\* C4 witness: OCR gave whitespace-only text and the call returned.
C4_Witness ==
    /\ ReturnedFromPlainCall
    /\ path_exists
    /\ text # <<>>
    /\ Strip(text) = <<>>
    /\ result # None

\* C5: a call that passes a document path and languages=[...], as the test
\* and runner scripts do, returns a result record instead of raising.
C5_CallWithLanguagesReturns ==
    (pc = "done" /\ languages_kw) => (outcome = "returned" /\ result # None)

\* C10: compliance_deadline is absent or equal to notice_date, and is
\* present only when notice_date is, in the values analyze_text computes for
\* the record and in every record returned.
C10_DeadlineIsNoticeDate ==
    /\ compliance_deadline = None \/ compliance_deadline = notice_date
    /\ compliance_deadline # None => notice_date # None
    /\ result # None =>
          /\ \/ result[1].compliance_deadline = None
             \/ result[1].compliance_deadline = result[1].notice_date
          /\ result[1].compliance_deadline # None
                => result[1].notice_date # None

\* C10 witness: the text had two different dates and the deadline was set.
C10_Witness ==
    /\ pc \in {"except", "done"}
    /\ Len(dates) > 1
    /\ Least(Range(dates)) # Greatest(Range(dates))
    /\ compliance_deadline # None
    /\ compliance_deadline = notice_date

----------------------------------------------------------------------------
(* Properties of extract_gstin (specification SpecGstin)                   *)

\* s has the 15-character shape: 2 digits, 5 uppercase letters, 4 digits,
\* 1 uppercase letter, 1 entity-code character of class entity, "Z",
\* 1 digit or uppercase letter
HasGstinShape(s, entity) ==
    /\ Len(s) = 15
    /\ \A k \in {1, 2, 8, 9, 10, 11} : s[k] \in Digit
    /\ \A k \in {3, 4, 5, 6, 7, 12} : s[k] \in Upper
    /\ s[13] \in entity
    /\ s[14] = "Z"
    /\ s[15] \in Digit \cup Upper

\* s has the 10-character PAN shape
HasPanShape(s) ==
    /\ Len(s) = 10
    /\ \A k \in 1..5 : s[k] \in Upper
    /\ \A k \in 6..9 : s[k] \in Digit
    /\ s[10] \in Upper

\* the positions of t where a substring of the shape starts
GstinShapedAt(t, entity) ==
    {i \in 1..(Len(t) - 14) : HasGstinShape(SubSeq(t, i, i + 14), entity)}

\* g is the first substring of t of the shape, None if there is none, and
\* is never a PAN-shaped string
FirstOfShape(t, g, entity) ==
    LET hits == GstinShapedAt(t, entity)
    IN  /\ hits = {} => g = None
        /\ hits # {} => g = Some(SubSeq(t, Least(hits), Least(hits) + 14))
        /\ g # None => ~HasPanShape(g[1])

\* C8 as stated: extract_gstin returns the first substring whose entity code
\* is any alphanumeric character, None when there is none, never a PAN.
C8_GstinAnyAlphanumericEntity ==
    pc = "gstin_done" => FirstOfShape(text, gstin, Digit \cup Upper)

\* C8 amended: extract_gstin returns the first substring of the shape whose
\* entity code is a digit 1-9 or an uppercase letter (a "0" there is not
\* accepted), None when there is none, and never a PAN-shaped string.
C8_GstinFirstMatch ==
    pc = "gstin_done" => FirstOfShape(text, gstin, (Digit \ {"0"}) \cup Upper)

\* C8 witness: a GSTIN was returned although a candidate with entity code
\* "0" stands earlier in the text.
C8_Witness ==
    /\ pc = "gstin_done"
    /\ gstin # None
    /\ \E i \in GstinShapedAt(text, {"0"}) :
          \E j \in GstinShapedAt(text, (Digit \ {"0"}) \cup Upper) :
              i < j /\ gstin = Some(SubSeq(text, j, j + 14))

----------------------------------------------------------------------------
(* Properties of extract_dates and the date fields (SpecDates)             *)

\* the words of t
Words(t) == SelectSeq(Split(t, " "), LAMBDA w : w # <<>>)

AllDigits(s) == s # <<>> /\ \A i \in DOMAIN s : s[i] \in Digit

\* w, read as a whole word, has one of the four shapes DD/MM/YYYY, DD-MM-YYYY,
\* YYYY-MM-DD, DD/MM/YY
DateShaped(w) ==
    LET a == Split(w, "/")
        b == Split(w, "-")
    IN  \/ /\ Len(a) = 3
           /\ \A i \in 1..3 : AllDigits(a[i])
           /\ Len(a[1]) \in 1..2 /\ Len(a[2]) \in 1..2 /\ Len(a[3]) \in {2, 4}
        \/ /\ Len(b) = 3
           /\ \A i \in 1..3 : AllDigits(b[i])
           /\ \/ Len(b[1]) \in 1..2 /\ Len(b[2]) \in 1..2 /\ Len(b[3]) = 4
              \/ Len(b[1]) = 4 /\ Len(b[2]) \in 1..2 /\ Len(b[3]) \in 1..2

\* the year, month and day a date-shaped word writes
WrittenYMD(w) ==
    LET a == Split(w, "/")
        b == Split(w, "-")
    IN  IF Len(a) = 3
        THEN <<IF Len(a[3]) = 2 THEN TwoDigitYear(ToInt(a[3])) ELSE ToInt(a[3]),
               ToInt(a[2]), ToInt(a[1])>>
        ELSE IF Len(b[1]) = 4
             THEN <<ToInt(b[1]), ToInt(b[2]), ToInt(b[3])>>
             ELSE <<ToInt(b[3]), ToInt(b[2]), ToInt(b[1])>>

\* the day exists in the calendar
InCalendar(ymd) ==
    /\ ymd[1] >= 1
    /\ ymd[2] \in 1..12
    /\ ymd[3] \in 1..DaysInMonth(ymd[2], ymd[1])

\* the date-shaped words of t
DateWords(t) == SelectSeq(Words(t), DateShaped)

\* the dates written in t, in document order
WrittenDates(t) ==
    LET ws == SelectSeq(DateWords(t), LAMBDA w : InCalendar(WrittenYMD(w)))
    IN  [i \in DOMAIN ws |->
            WrittenYMD(ws[i])[1] * 10000 + WrittenYMD(ws[i])[2] * 100
            + WrittenYMD(ws[i])[3]]

\* C6: with no date in the text notice_date and compliance_deadline are both
\* absent; with exactly one date, in any of the four shapes, notice_date is
\* that date and compliance_deadline is absent; with two or more,
\* notice_date is the maximum of the dates written.
C6_DateAssemblyRule ==
    pc = "dates_done" =>
        LET w == WrittenDates(text)
        IN  /\ DateWords(text) = <<>>
                => notice_date = None /\ compliance_deadline = None
            /\ (Len(w) = 1 /\ Len(DateWords(text)) = 1)
                => notice_date = Some(w[1]) /\ compliance_deadline = None
            /\ (Len(w) >= 2 /\ Len(DateWords(text)) = Len(w))
                => notice_date = Some(Max(w))

\* C7: when the only date-shaped substring of the text denotes a day that
\* does not exist, extract_dates returns no date at all.
C7_InvalidDateDiscarded ==
    (/\ pc \in {"dates_found", "dates_done"}
     /\ Len(DateWords(text)) = 1
     /\ ~InCalendar(WrittenYMD(DateWords(text)[1])))
    => dates = <<>>

----------------------------------------------------------------------------
(* Properties of extract_penalty_amount (SpecAmount)                       *)

\* s is a grouped amount: one to three digits, groups of a comma and three
\* digits, optionally a point and two digits
GroupedAmount(s) ==
    LET p == Split(s, ".")
        g == Split(p[1], ",")
    IN  /\ Len(p) \in 1..2
        /\ Len(p) = 2 => AllDigits(p[2]) /\ Len(p[2]) = 2
        /\ AllDigits(g[1]) /\ Len(g[1]) \in 1..3
        /\ \A i \in 2..Len(g) : AllDigits(g[i]) /\ Len(g[i]) = 3

\* the value of a grouped amount, in hundredths
GroupedValue(s) ==
    LET p == Split(s, ".")
    IN  100 * ToInt(SelectSeq(p[1], LAMBDA c : c \in Digit))
        + (IF Len(p) = 2 THEN ToInt(p[2]) ELSE 0)

\* the number written at position j: the longest run of digits, commas and
\* points that starts there
NumberAt(t, j) == SubSeq(t, j, SkipClass(t, j, Digit \cup {",", "."}) - 1)

\* the positions of the numbers of the "Rs."-prefixed grouped amounts of t:
\* the word "Rs.", optional whitespace, a grouped amount
RsAmountsAt(t) ==
    {j \in 1..Len(t) :
        /\ GroupedAmount(NumberAt(t, j))
        /\ \E i \in 1..(j - 3) :
              /\ SubSeq(t, i, i + 2) = <<"R", "s", ".">>
              /\ At(t, i - 1) \notin Letter
              /\ j = SkipClass(t, i + 3, Whitespace)}

\* C9: for a text with at least one "Rs."-prefixed grouped amount,
\* extract_penalty_amount returns the value of the first of them in document
\* order, separators stripped, with currency "INR", wherever "INR"-prefixed
\* or "Penalty"-anchored amounts stand.
C9_FirstRsAmountWins ==
    (pc = "amount_done" /\ RsAmountsAt(text) # {})
    => penalty_amount =
         Some(MonetaryAmount(GroupedValue(NumberAt(text, Least(RsAmountsAt(text)))),
                             "INR"))

====
